---- MODULE Spec2Model ----
(***************************************************************************)
(* Model of rocket_oauth2's core (src/src/core.rs): the OAuth2 aggregate   *)
(* with its login-redirect operation (get_redirect), its callback state    *)
(* machine (handle) and its refresh operation, together with the cookie    *)
(* storage the handlers reach through the request they serve.              *)
(*                                                                         *)
(* The state token lives in a private cookie.  A request carries the       *)
(* cookie its user agent held when the request was sent; a handler works   *)
(* on the jar of the request it serves (request.guard::<Cookies>()), and   *)
(* the changes it makes travel back with the response and reach the user   *)
(* agent's store when the response is delivered.  The engine keeps no      *)
(* mutable state of its own, so a handler's result depends on the request  *)
(* alone and a handler action takes the request with it; what is left to   *)
(* the interleaving is when each response arrives.                         *)
(*                                                                         *)
(* Spec        flows of logins, callbacks and refreshes by several user    *)
(*             agents, requests overlapping freely                         *)
(* SpecSeq     the same flows, each user agent awaiting the response to    *)
(*             one request before it sends the next                        *)
(* SpecHandle  one callback request, over every query and stored state     *)
(* SpecLogin   one login request, over every configuration of scopes       *)
(***************************************************************************)
EXTENDS Integers, Sequences, FiniteSets, TLC

\* ------------------------------------------------------------------ bounds

\* Number of operations in a run: requests sent to the login and callback
\* routes, and calls of refresh.
MaxOps == 3

\* ------------------------------------------------------------- value sets

UA == {"u1", "u2"}

STATE_COOKIE_NAME == "rocket_oauth2_state"

\* Option<T>: None is the empty sequence, Some(x) the one-element sequence.
None == << >>
Some(x) == <<x>>
is_none(o) == o = None
is_some(o) == o # None
unwrap(o) == o[1]

\* State tokens: StateToken(n) is the n-th value the Adapter generates; Bogus
\* is a value the Adapter never generates ("state=wrong").
StateToken(n) == <<"state", n>>
Bogus == <<"wrong">>
QueryScopes == {"read"}
Errors == {"e1", "e2"}

\* The login scopes an engine may be constructed with (none when no scopes
\* are configured), and the ones the engine of the flows is constructed with.
ScopeConfigs == {<< >>, <<"read", "write">>, <<"write", "read">>}
FlowScopes == <<"read", "write">>

\* TokenRequest
AuthorizationCode(code) == [grant |-> "AuthorizationCode", value |-> code]
RefreshToken(token) == [grant |-> "RefreshToken", value |-> token]

\* TokenResponse
TokenResponse(at, tt, ei, rt, sc, ex) ==
    [access_token |-> at, token_type |-> tt, expires_in |-> ei,
     refresh_token |-> rt, scope |-> sc, extras |-> ex]

\* Result<T, E>
Ok(v) == [ok |-> TRUE, val |-> v]
Err(e) == [ok |-> FALSE, val |-> e]

\* The authorization codes and refresh tokens a request may carry.  The
\* provider accepts some and refuses the others.
Codes == {"XYZ", "ABC", "BAD", "OLD"}
RefreshTokens == {"r1", "r0"}

\* ---------------------------------------------------------------- cookies

\* The jar of one request: the state cookie the request carried (orig) and
\* the change made while handling it (delta), sent back as Set-Cookie when
\* the handler answers with a responder.
NoDelta == << >>
Cookies(orig) == [orig |-> orig, delta |-> NoDelta]

get_private(cookies) ==
    IF cookies.delta = NoDelta THEN cookies.orig
    ELSE IF cookies.delta[1] = "add" THEN Some(cookies.delta[2])
    ELSE None

\* The mutant of add_private: a cookie the jar already holds is kept.
add_private_IfAbsent(cookies, value) ==
    IF is_some(get_private(cookies)) THEN cookies
    ELSE [cookies EXCEPT !.delta = <<"add", value>>]

\* Cookies::add_private of the state cookie: the one cookie of that name
\* now holds value.
add_private(cookies, value) == [cookies EXCEPT !.delta = <<"add", value>>]

remove(cookies) ==
    IF is_some(cookies.orig) THEN [cookies EXCEPT !.delta = <<"remove">>]
    ELSE [cookies EXCEPT !.delta = NoDelta]

\* The path a Set-Cookie without a Path attribute applies to: the request
\* URI's path up to its last segment (<< >> is "/").
default_path(uri) == SubSeq(uri, 1, Len(uri) - 1)

\* The user agent's state cookie of path "/" after a response to a request
\* for uri that carries delta as Set-Cookie.  add_private gives the cookie
\* Path=/; the cookie handed to remove comes from the request's Cookie
\* header and has no Path, so the removal applies to the default path of
\* the request URI and clears the stored cookie only if that path is "/".
ApplyDelta(stored, delta, uri) ==
    IF delta = NoDelta THEN stored
    ELSE IF delta[1] = "add" THEN Some(delta[2])
    ELSE IF default_path(uri) = << >> THEN None
    ELSE stored

\* ---------------------------------------------------------------- Adapter

\* Adapter::authorization_uri: an authorization URI and a state value, or
\* the Adapter's error.  The n-th successful call generates a fresh state,
\* embedded in the URI and returned beside it.
AuthorizationUri(scopes, n) ==
    [uri |-> [endpoint |-> "https://provider/auth", scopes |-> scopes,
              state |-> StateToken(n)],
     state |-> StateToken(n)]

\* What the Adapter does when asked: it generates its n-th state, or it
\* fails with an error.
AuthChoices(n) == {Ok(n)} \cup {Err(e) : e \in Errors}

\* Adapter::authorization_uri(config, scopes), for what the Adapter does.
authorization_uri(scopes, adapter) ==
    IF adapter.ok THEN Ok(AuthorizationUri(scopes, adapter.val)) ELSE adapter

\* Adapter::exchange_code: the provider's answer to a token request, a
\* TokenResponse or the Adapter's error.
exchange_code(request) ==
    IF request.grant = "AuthorizationCode"
      THEN CASE request.value = "XYZ" ->
                  Ok(TokenResponse("tok", "bearer", None, None, None, << >>))
             [] request.value = "ABC" ->
                  Ok(TokenResponse("tok2", "bearer", Some(3600), Some("r1"),
                                   Some("write"), <<"athlete">>))
             [] request.value = "BAD" -> Err("e1")
             [] OTHER -> Err("e2")
      ELSE CASE request.value = "r1" ->
                  Ok(TokenResponse("tok3", "bearer", Some(60), Some("r1"),
                                   None, << >>))
             [] OTHER -> Err("e1")

\* ----------------------------------------------------------------- OAuth2

\* What a handler leaves behind for the request it served.
\*   status, location, body   the response
\*   delta, stored            the jar's change and what the jar then holds
\*   exch, ret                the calls of Adapter::exchange_code, its answer
\*   cb                       the tokens Callback::callback was invoked with
\*   log                      the log entries written
\*   asked                    the scopes of each call of authorization_uri
\*   result                   what get_redirect returned (login route)
Outcome(status, location, body, cookies, exch, ret, cb, log, result) ==
    [status |-> status, location |-> location, body |-> body,
     delta |-> cookies.delta, stored |-> get_private(cookies),
     exch |-> exch, ret |-> ret, cb |-> cb, log |-> log, result |-> result,
     asked |-> << >>]

\* handler::Outcome::failure(status): the response is made by the error
\* catcher for the status.
is_failure(out) == out.status \in {400, 500}

\* The Set-Cookie of the response: the jar's change when the handler
\* answered with a responder; none of it when the outcome is a failure,
\* whose response carries no cookie set while handling the request.
SetCookie(out) == IF is_failure(out) THEN NoDelta ELSE out.delta

\* The mutants of get_redirect: the state is not stored; a failure clears
\* the stored state.
get_redirect_NoCookie(cookies, scopes, adapter) ==
    LET auth == authorization_uri(scopes, adapter) IN
    IF ~auth.ok
      THEN [cookies |-> cookies, result |-> Err(auth.val),
            asked |-> <<scopes>>]
      ELSE [cookies |-> cookies, result |-> Ok([redirect |-> auth.val.uri]),
            asked |-> <<scopes>>]

get_redirect_ClearOnError(cookies, scopes, adapter) ==
    LET auth == authorization_uri(scopes, adapter) IN
    IF ~auth.ok
      THEN [cookies |-> remove(cookies), result |-> Err(auth.val),
            asked |-> <<scopes>>]
      ELSE [cookies |-> add_private(cookies, auth.val.state),
            result |-> Ok([redirect |-> auth.val.uri]),
            asked |-> <<scopes>>]

\* OAuth2::get_redirect(cookies, scopes): the jar afterwards, the result and
\* the scopes the Adapter was asked for.
get_redirect(cookies, scopes, adapter) ==
    LET auth == authorization_uri(scopes, adapter) IN
    IF ~auth.ok
      THEN [cookies |-> cookies, result |-> Err(auth.val),
            asked |-> <<scopes>>]
      ELSE [cookies |-> add_private(cookies, auth.val.state),
            result |-> Ok([redirect |-> auth.val.uri]),
            asked |-> <<scopes>>]

\* OAuth2::refresh(refresh_token): the request handed to the Adapter and
\* the result returned to the caller.
refresh(refresh_token) ==
    LET request == RefreshToken(refresh_token) IN
    [exch |-> <<request>>, result |-> exchange_code(request)]

\* The mutant of from_form: code is taken as optional.
from_form_CodeOptional(items) ==
    IF is_none(items.state)
      THEN Err("parse")
      ELSE Ok([code |-> IF is_none(items.code) THEN "" ELSE unwrap(items.code),
               state |-> unwrap(items.state), scope |-> items.scope])

\* CallbackQuery::from_form, lenient: code and state are required, scope
\* is optional, other items are ignored.
from_form(items) ==
    IF is_none(items.code) \/ is_none(items.state)
      THEN Err("parse")
      ELSE Ok([code |-> unwrap(items.code), state |-> unwrap(items.state),
               scope |-> items.scope])

\* The mutants of ValidateState: the cookie is removed before it is read;
\* any stored state is accepted.
ValidateState_RemoveFirst(cookies, state) ==
    LET removed == remove(cookies)
        cookie == get_private(removed) IN
    IF is_some(cookie) /\ unwrap(cookie) = state
      THEN Ok(removed)
      ELSE Err("state")

ValidateState_AnyCookie(cookies, state) ==
    LET cookie == get_private(cookies) IN
    IF is_some(cookie)
      THEN Ok(remove(cookies))
      ELSE Err("state")

\* The state check of handle: the jar afterwards, or rejection.
ValidateState(cookies, state) ==
    LET cookie == get_private(cookies) IN
    IF is_some(cookie) /\ unwrap(cookie) = state
      THEN Ok(remove(cookies))
      ELSE Err("state")

\* The mutants of ApplyQuirkFallback: the query's scope always wins; the
\* token type is normalised along with the fallback.
ApplyQuirkFallback_QueryWins(token, scope) ==
    IF is_some(scope) THEN [token EXCEPT !.scope = scope] ELSE token

ApplyQuirkFallback_Normalize(token, scope) ==
    IF is_none(token.scope)
      THEN [token EXCEPT !.scope = scope, !.token_type = "Bearer"]
      ELSE [token EXCEPT !.token_type = "Bearer"]

\* The scope fallback of handle.
ApplyQuirkFallback(token, scope) ==
    IF is_none(token.scope) THEN [token EXCEPT !.scope = scope] ELSE token

\* The mutant of BadRequest: the request is forwarded instead of answered,
\* and ends as 404 once no other route takes it.
BadRequest_Forward(cookies, exch, ret, log) ==
    Outcome(404, None, None, cookies, exch, ret, << >>, log, None)

\* handler::Outcome::failure(Status::BadRequest)
BadRequest(cookies, exch, ret, log) ==
    Outcome(400, None, None, cookies, exch, ret, << >>, log, None)

\* The mutants of ExchangeToken: a failed exchange still reaches Dispatch;
\* a failed exchange answers with the Adapter's error in the body; a failed
\* exchange is tried a second time.
ExchangeToken_Retry(cookies, params) ==
    LET request == AuthorizationCode(params.code)
        ex == exchange_code(request)
        again == exchange_code(request) IN
    IF ex.ok
      THEN LET token == ApplyQuirkFallback(ex.val, params.scope) IN
           Outcome(200, None, Some([callback |-> token]), cookies,
                   <<request>>, Some(ex), <<token>>, << >>, None)
    ELSE IF again.ok
      THEN LET token == ApplyQuirkFallback(again.val, params.scope) IN
           Outcome(200, None, Some([callback |-> token]), cookies,
                   <<request, request>>, Some(again), <<token>>, << >>, None)
    ELSE BadRequest(cookies, <<request, request>>, Some(again),
                    <<[level |-> "error", msg |-> "Token exchange failed",
                       detail |-> again.val]>>)

ExchangeToken_LeakError(cookies, params) ==
    LET request == AuthorizationCode(params.code)
        ex == exchange_code(request) IN
    IF ~ex.ok
      THEN Outcome(400, None, Some([error |-> ex.val]), cookies, <<request>>,
                   Some(ex), << >>,
                   <<[level |-> "error", msg |-> "Token exchange failed",
                      detail |-> ex.val]>>, None)
      ELSE LET token == ApplyQuirkFallback(ex.val, params.scope) IN
           Outcome(200, None, Some([callback |-> token]), cookies,
                   <<request>>, Some(ex), <<token>>, << >>, None)

ExchangeToken_IgnoreErr(cookies, params) ==
    LET request == AuthorizationCode(params.code)
        ex == exchange_code(request)
        token == IF ex.ok THEN ApplyQuirkFallback(ex.val, params.scope)
                 ELSE TokenResponse("", "", None, None, params.scope, << >>) IN
    Outcome(200, None, Some([callback |-> token]), cookies,
            <<request>>, Some(ex), <<token>>, << >>, None)

\* The exchange and dispatch of handle, reached once the state is validated:
\* cookies is the jar the validation left.
ExchangeToken(cookies, params) ==
    LET request == AuthorizationCode(params.code)
        ex == exchange_code(request) IN
    IF ~ex.ok
      THEN BadRequest(cookies, <<request>>, Some(ex),
                      <<[level |-> "error", msg |-> "Token exchange failed",
                         detail |-> ex.val]>>)
      ELSE LET token == ApplyQuirkFallback(ex.val, params.scope) IN
           Outcome(200, None, Some([callback |-> token]), cookies,
                   <<request>>, Some(ex), <<token>>, << >>, None)

\* The mutant of handle: the stored state is removed as soon as it is read,
\* whether or not it matches.
handle_TakeState(query, orig) ==
    LET cookies == Cookies(orig) IN
    IF is_none(query) THEN BadRequest(cookies, << >>, None, << >>)
    ELSE LET parsed == from_form(unwrap(query)) IN
    IF ~parsed.ok THEN BadRequest(cookies, << >>, None, << >>)
    ELSE LET params == parsed.val
             checked == ValidateState(cookies, params.state) IN
    IF ~checked.ok THEN BadRequest(remove(cookies), << >>, None, << >>)
    ELSE ExchangeToken(checked.val, params)

\* OAuth2::handle(request): query is the request's query (None when the URI
\* has none), orig the state cookie it carried.
handle(query, orig) ==
    LET cookies == Cookies(orig) IN
    IF is_none(query) THEN BadRequest(cookies, << >>, None, << >>)
    ELSE LET parsed == from_form(unwrap(query)) IN
    IF ~parsed.ok THEN BadRequest(cookies, << >>, None, << >>)
    ELSE LET params == parsed.val
             checked == ValidateState(cookies, params.state) IN
    IF ~checked.ok THEN BadRequest(cookies, << >>, None, << >>)
    ELSE ExchangeToken(checked.val, params)

\* redirect_handler: the engine is in managed state, so handle runs.
redirect_handler(query, orig) == handle(query, orig)

\* The answer of the Result responder of login_handler: the redirect, or
\* 500 after logging the error.
LoginOutcome(r) ==
    IF r.result.ok
      THEN [Outcome(303, Some(r.result.val.redirect), None, r.cookies,
                    << >>, None, << >>, << >>, Some(r.result))
               EXCEPT !.asked = r.asked]
      ELSE [Outcome(500, None, None, r.cookies, << >>, None, << >>,
                    <<[level |-> "error", msg |-> "Response was an Err",
                       detail |-> r.result.val]>>, Some(r.result))
               EXCEPT !.asked = r.asked]

\* The mutant of login_handler: the redirect is prepared without scopes.
login_handler_NoScopes(orig, scopes, adapter) ==
    LoginOutcome(get_redirect(Cookies(orig), << >>, adapter))

\* login_handler: get_redirect with the engine's login scopes (scopes is
\* oauth.login_scopes), answered by the Result responder.
login_handler(orig, scopes, adapter) ==
    LoginOutcome(get_redirect(Cookies(orig), scopes, adapter))

\* ------------------------------------------------------------------ state

VARIABLES
    login_scopes,   \* OAuth2.login_scopes, fixed at construction
    callback_uri,   \* the path the callback route is mounted at, as segments
    jar,            \* the state cookie each user agent holds (Option)
    reqs,           \* the requests sent so far, in the order sent
    issued,         \* how many state values the Adapter has generated
    refreshes       \* the refresh calls so far: input, Adapter request, result

vars == <<login_scopes, callback_uri, jar, reqs, issued, refreshes>>

\* The callback URIs an engine may be constructed with: "/callback" and
\* "/auth/callback".
CallbackUris == {<<"callback">>, <<"auth", "callback">>}

\* A request as served: who sent it, to which route, its query, the state
\* cookie it carried, the Adapter's answer to authorization_uri (login
\* route), what the handler did, and whether the response has arrived.
Request(u, kind, query, cookie, auth, out) ==
    [ua |-> u, kind |-> kind, query |-> query, cookie |-> cookie,
     auth |-> auth, out |-> out, phase |-> "handled"]

IssuedStates == {StateToken(n) : n \in 1..issued}

\* The callback queries over given codes, states and scopes: no query at
\* all, or any choice of code, state and scope, each present or not.
Opt(S) == {None} \cup {Some(x) : x \in S}
Queries(codes, states, scopes) ==
    {None} \cup
    {Some([code |-> c, state |-> s, scope |-> sc]) :
        c \in Opt(codes), s \in Opt(states), sc \in Opt(scopes)}

\* The queries user agents present in a flow: none, one without a code, one
\* without a state, and every query with a code the provider accepts or one
\* it refuses and a state the Adapter has generated or a wrong one.
FlowCodes == {"XYZ", "BAD"}
FlowQueries ==
    {None, Some([code |-> None, state |-> Some(Bogus), scope |-> None]),
     Some([code |-> Some("XYZ"), state |-> None, scope |-> None])} \cup
    {Some([code |-> Some(c), state |-> Some(s), scope |-> None]) :
        c \in FlowCodes, s \in IssuedStates \cup {Bogus}}

Init ==
    /\ login_scopes = FlowScopes
    /\ callback_uri \in CallbackUris
    /\ jar = [u \in UA |-> None]
    /\ reqs = << >>
    /\ issued = 0
    /\ refreshes = << >>

\* User agent u requests the login route, sending the state cookie it
\* holds, and login_handler serves the request; adapter is what the
\* Adapter does when asked, and the request records its answer for the
\* engine's login scopes.
LoginHandler(u, adapter) ==
    /\ Len(reqs) + Len(refreshes) < MaxOps
    /\ reqs' = Append(reqs,
                 Request(u, "login", None, jar[u],
                         Some(authorization_uri(login_scopes, adapter)),
                         login_handler(jar[u], login_scopes, adapter)))
    /\ issued' = IF adapter.ok THEN issued + 1 ELSE issued
    /\ UNCHANGED <<login_scopes, callback_uri, jar, refreshes>>

\* The mutant of RedirectHandler: the state is kept in one slot of the
\* process, so the handler reads whichever state some user agent stored.
RedirectHandler_GlobalSlot(u, q) ==
    LET holders == {v \in UA : is_some(jar[v])}
        slot == IF holders = {} THEN None ELSE jar[CHOOSE v \in holders : TRUE] IN
    /\ Len(reqs) + Len(refreshes) < MaxOps
    /\ reqs' = Append(reqs, Request(u, "callback", q, slot, None,
                                    redirect_handler(q, slot)))
    /\ UNCHANGED <<login_scopes, callback_uri, jar, issued, refreshes>>

\* User agent u requests the callback route with query q, sending the state
\* cookie it holds, and redirect_handler serves the request.
RedirectHandler(u, q) ==
    /\ Len(reqs) + Len(refreshes) < MaxOps
    /\ reqs' = Append(reqs, Request(u, "callback", q, jar[u], None,
                                    redirect_handler(q, jar[u])))
    /\ UNCHANGED <<login_scopes, callback_uri, jar, issued, refreshes>>

\* The response to request i reaches its user agent, which applies the
\* Set-Cookie it carries; a callback was requested at callback_uri, and the
\* cookie of a login has Path=/ whatever the login URI.  Responses arrive in any order, and a user agent
\* may send further requests before a response arrives.
Deliver(i) ==
    /\ reqs[i].phase = "handled"
    /\ reqs' = [reqs EXCEPT ![i].phase = "delivered"]
    /\ jar' = [jar EXCEPT ![reqs[i].ua] =
                    ApplyDelta(@, SetCookie(reqs[i].out), callback_uri)]
    /\ UNCHANGED <<login_scopes, callback_uri, issued, refreshes>>

\* The mutant of Refresh: the call consumes the stored states.
Refresh_ConsumesState(token) ==
    /\ Len(reqs) + Len(refreshes) < MaxOps
    /\ refreshes' = Append(refreshes, [token |-> token, stored |-> jar,
                                       call |-> refresh(token)])
    /\ jar' = [u \in UA |-> None]
    /\ UNCHANGED <<login_scopes, callback_uri, reqs, issued>>

\* The application calls refresh; stored is the state storage at the call.
Refresh(token) ==
    /\ Len(reqs) + Len(refreshes) < MaxOps
    /\ refreshes' = Append(refreshes, [token |-> token, stored |-> jar,
                                       call |-> refresh(token)])
    /\ UNCHANGED <<login_scopes, callback_uri, jar, reqs, issued>>

Next ==
    \/ \E u \in UA, adapter \in AuthChoices(issued + 1) :
          LoginHandler(u, adapter)
    \/ \E u \in UA, q \in FlowQueries : RedirectHandler(u, q)
    \/ \E i \in 1..Len(reqs) : Deliver(i)
    \/ \E t \in RefreshTokens : Refresh(t)

Spec == Init /\ [][Next]_vars

\* ------------------------------------------------- one request at a time

\* A user agent that has received the response to every request it sent.
Idle(u) ==
    \A i \in 1..Len(reqs) : reqs[i].ua = u => reqs[i].phase = "delivered"

\* Each user agent sends a request only after the response to its previous
\* one has arrived; different user agents still interleave.
NextSeq ==
    \/ \E u \in UA, adapter \in AuthChoices(issued + 1) :
          Idle(u) /\ LoginHandler(u, adapter)
    \/ \E u \in UA, q \in FlowQueries : Idle(u) /\ RedirectHandler(u, q)
    \/ \E i \in 1..Len(reqs) : Deliver(i)
    \/ \E t \in RefreshTokens : Refresh(t)

SpecSeq == Init /\ [][NextSeq]_vars

\* ------------------------------------------- every request to the callback

\* One callback request with any query, sent by a user agent holding any
\* state cookie or none.
HandleStates == {StateToken(n) : n \in 1..2}
AllQueries == Queries(Codes, HandleStates \cup {Bogus}, QueryScopes)

InitHandle ==
    /\ login_scopes \in ScopeConfigs
    /\ callback_uri \in CallbackUris
    /\ jar \in [UA -> Opt(HandleStates)]
    /\ reqs = << >>
    /\ issued = Cardinality(HandleStates)
    /\ refreshes = << >>

NextHandle ==
    \/ \E u \in UA, q \in AllQueries : reqs = << >> /\ RedirectHandler(u, q)
    \/ \E i \in 1..Len(reqs) : Deliver(i)

SpecHandle == InitHandle /\ [][NextHandle]_vars

\* --------------------------------------------- every request to the login

\* One login request to an engine constructed with any login scopes, sent by
\* a user agent holding any state cookie or none.
NextLogin ==
    \/ \E u \in UA, adapter \in AuthChoices(issued + 1) :
          reqs = << >> /\ LoginHandler(u, adapter)
    \/ \E i \in 1..Len(reqs) : Deliver(i)

SpecLogin == InitHandle /\ [][NextLogin]_vars

\* ----------------------------------------------------------------- claims

Reqs == 1..Len(reqs)
Callbacks == {i \in Reqs : reqs[i].kind = "callback"}
Logins == {i \in Reqs : reqs[i].kind = "login"}
Handled(i) == reqs[i].phase \in {"handled", "delivered"}

\* What the query of request i carries.
HasCode(i) == is_some(reqs[i].query) /\ is_some(unwrap(reqs[i].query).code)
HasState(i) == is_some(reqs[i].query) /\ is_some(unwrap(reqs[i].query).state)
QCode(i) == unwrap(unwrap(reqs[i].query).code)
QState(i) == unwrap(unwrap(reqs[i].query).state)
QScope(i) == unwrap(reqs[i].query).scope

\* The presented state equals the state stored for the user agent, which
\* the request carries as its cookie.
StateMatches(i) == HasState(i) /\ reqs[i].cookie = Some(QState(i))

\* The provider's answer to the code of request i.
Answer(i) == exchange_code(AuthorizationCode(QCode(i)))

\* Request i got past ValidateState: the handler went on to the exchange.
Passed(i) == Handled(i) /\ Len(reqs[i].out.exch) > 0

\* Request i reached Dispatch n times: Callback::callback ran n times and,
\* when it ran, its responder is the response.
Dispatched(i, n) ==
    /\ Len(reqs[i].out.cb) = n
    /\ n > 0 => /\ reqs[i].out.status = 200
                /\ reqs[i].out.body = Some([callback |-> reqs[i].out.cb[n]])

\* C1 as stated: every handled callback request that carries a code and a
\* state equal to the stored one reaches Dispatch exactly once, the
\* Callback being invoked exactly once.
C1_DispatchOnceForMatchingState ==
    \A i \in Callbacks :
        (Handled(i) /\ HasCode(i) /\ StateMatches(i)) => Dispatched(i, 1)

\* C1 amended: every handled callback request that carries a state equal to
\* the stored one and a code the provider exchanges for a token reaches
\* Dispatch exactly once, the Callback being invoked exactly once.
C1_DispatchOnceForValidCode ==
    \A i \in Callbacks :
        (Handled(i) /\ HasCode(i) /\ StateMatches(i) /\ Answer(i).ok)
            => Dispatched(i, 1)

C1_Witness ==
    \E i \in Callbacks :
        /\ Handled(i) /\ HasCode(i) /\ StateMatches(i) /\ Answer(i).ok
        /\ Len(reqs[i].out.cb) = 1

\* C2: with each user agent sending one request at a time, a state value
\* that a callback of the user agent has taken through ValidateState, passing
\* or failing, does not pass ValidateState in any later callback of that
\* user agent.
C2_StateNeverValidatesTwice ==
    \A i, j \in Callbacks :
        (/\ i < j /\ reqs[i].ua = reqs[j].ua
         /\ Handled(i) /\ HasCode(i) /\ HasState(i)
         /\ Handled(j) /\ HasCode(j) /\ HasState(j)
         /\ QState(i) = QState(j))
            => ~Passed(j)

\* C3: of the callback requests of one user agent that carry the same state
\* value and the same state cookie, at most one passes ValidateState and
\* proceeds to the exchange.
C3_AtMostOnePasses ==
    \A i, j \in Callbacks :
        (/\ i # j /\ reqs[i].ua = reqs[j].ua
         /\ HasState(i) /\ HasState(j) /\ QState(i) = QState(j)
         /\ reqs[i].cookie = reqs[j].cookie)
            => ~(Passed(i) /\ Passed(j))

\* C4: a handled callback request whose presented state is not the stored
\* one, or that arrived with no state stored, was answered 400 with neither
\* Adapter::exchange_code nor Callback::callback invoked.
C4_MismatchRejectedBeforeExchange ==
    \A i \in Callbacks :
        (Handled(i) /\ HasState(i) /\ ~StateMatches(i))
            => /\ reqs[i].out.status = 400
               /\ reqs[i].out.exch = << >>
               /\ reqs[i].out.cb = << >>

C4_Witness ==
    \E i, j \in Callbacks :
        /\ Handled(i) /\ HasCode(i) /\ HasState(i) /\ Answer(i).ok
        /\ is_some(reqs[i].cookie) /\ reqs[i].cookie # Some(QState(i))
        /\ Handled(j) /\ HasCode(j) /\ HasState(j) /\ is_none(reqs[j].cookie)

\* C5: on a successful exchange the token handed to the Callback has the
\* query's scope when the Adapter's token has none and the query has one,
\* and the Adapter's scope when both have one.
C5_ScopeFallback ==
    \A i \in Callbacks :
        (Handled(i) /\ HasCode(i) /\ StateMatches(i) /\ Answer(i).ok)
            => /\ Len(reqs[i].out.cb) = 1
               /\ (is_none(Answer(i).val.scope) /\ is_some(QScope(i)))
                     => reqs[i].out.cb[1].scope = QScope(i)
               /\ (is_some(Answer(i).val.scope) /\ is_some(QScope(i)))
                     => reqs[i].out.cb[1].scope = Answer(i).val.scope

C5_Witness ==
    \E i \in Callbacks :
        /\ Handled(i) /\ HasCode(i) /\ StateMatches(i) /\ Answer(i).ok
        /\ is_none(Answer(i).val.scope) /\ QScope(i) = Some("read")
        /\ reqs[i].out.cb[1].scope = Some("read")

\* C6: a handled callback request with no query, or whose query lacks code
\* or state, was answered 400 at once, with no exchange and no Callback,
\* whatever the rest of the query and whatever state is stored.
C6_MalformedRejected ==
    \A i \in Callbacks :
        (Handled(i) /\ (~HasCode(i) \/ ~HasState(i)))
            => /\ reqs[i].out.status = 400
               /\ reqs[i].out.exch = << >>
               /\ reqs[i].out.cb = << >>

C6_Witness ==
    \E i \in Callbacks :
        /\ Handled(i) /\ ~HasCode(i) /\ StateMatches(i)
        /\ is_some(QScope(i))
        /\ reqs[i].out.status = 400

\* C7: a handled callback request whose token exchange failed was answered
\* 400 and the Callback was not invoked.
C7_NoCallbackOnFailedExchange ==
    \A i \in Callbacks :
        (Handled(i) /\ HasCode(i) /\ StateMatches(i) /\ ~Answer(i).ok)
            => /\ reqs[i].out.status = 400
               /\ reqs[i].out.body = None
               /\ Dispatched(i, 0)

C7_Witness ==
    \E i \in Callbacks :
        /\ Passed(i) /\ reqs[i].out.ret = Some(Err("e1"))
        /\ reqs[i].out.status = 400

\* C8: a call of refresh asks Adapter::exchange_code once, with
\* RefreshToken(token), returns its answer unchanged and changes neither a
\* user agent's stored state nor a request's jar.
C8_RefreshLeavesStateStorage ==
    [][refreshes' # refreshes =>
        LET r == refreshes'[Len(refreshes')] IN
        /\ r.call.exch = <<RefreshToken(r.token)>>
        /\ r.call.result = exchange_code(RefreshToken(r.token))
        /\ jar' = jar
        /\ reqs' = reqs]_vars

C8_Witness ==
    \E k \in 1..Len(refreshes) :
        /\ \E u \in UA : is_some(refreshes[k].stored[u])
        /\ jar = refreshes[k].stored
        /\ refreshes[k].call.result.ok

\* C9: when Adapter::authorization_uri answers (uri, state), the jar of the
\* login request then holds that state, get_redirect returns a redirect to
\* that uri, which is the response, and once the response has arrived the
\* user agent's store holds that state.
C9_LoginStoresStateAndRedirects ==
    [][\A i \in 1..Len(reqs') :
        (reqs'[i].kind = "login" /\ unwrap(reqs'[i].auth).ok)
        => LET a == unwrap(reqs'[i].auth).val IN
           /\ reqs'[i].out.stored = Some(a.state)
           /\ reqs'[i].out.result = Some(Ok([redirect |-> a.uri]))
           /\ reqs'[i].out.location = Some(a.uri)
           /\ (i <= Len(reqs) /\ reqs[i].phase # reqs'[i].phase)
                 => jar'[reqs[i].ua] = Some(a.state)]_vars

C9_Witness ==
    \E i \in Logins :
        /\ reqs[i].phase = "delivered"
        /\ unwrap(reqs[i].auth).ok
        /\ jar[reqs[i].ua] = Some(unwrap(reqs[i].auth).val.state)
        /\ is_some(reqs[i].cookie)
        /\ reqs[i].cookie # jar[reqs[i].ua]

\* C10: when Adapter::authorization_uri fails with e, get_redirect returns
\* Err(e), the request's jar is as it arrived, and the arrival of the
\* response leaves every user agent's store as it was.
C10_LoginFailureLeavesStorage ==
    [][\A i \in 1..Len(reqs') :
        (reqs'[i].kind = "login" /\ ~unwrap(reqs'[i].auth).ok)
        => /\ reqs'[i].out.result = Some(Err(unwrap(reqs'[i].auth).val))
           /\ reqs'[i].out.delta = NoDelta
           /\ reqs'[i].out.stored = reqs'[i].cookie
           /\ (i <= Len(reqs) /\ reqs[i].phase # reqs'[i].phase)
                 => jar' = jar]_vars

C10_Witness ==
    \E i \in Logins :
        /\ reqs[i].phase = "delivered"
        /\ ~unwrap(reqs[i].auth).ok
        /\ is_some(reqs[i].cookie)
        /\ jar[reqs[i].ua] = reqs[i].cookie

\* The state generated by the latest successful login of user agent u among
\* the requests rs before request i, if there is one.
OkLoginsBefore(rs, u, i) ==
    {j \in 1..(i - 1) : /\ rs[j].kind = "login" /\ rs[j].ua = u
                        /\ unwrap(rs[j].auth).ok}
Max(S) == CHOOSE x \in S : \A y \in S : y <= x
LatestStateIn(rs, u, i) ==
    IF OkLoginsBefore(rs, u, i) = {} THEN None
    ELSE Some(unwrap(rs[Max(OkLoginsBefore(rs, u, i))].auth).val.state)
LatestState(u, i) == LatestStateIn(reqs, u, i)

\* C11: with each user agent sending one request at a time and different
\* user agents interleaving, a step changes the stored state of a user agent
\* only by delivering the response to a request of that user agent, and the
\* state a callback of user agent U is validated against is absent or the
\* one generated by U's own latest successful login.
C11_StoragePerUserAgent ==
    [][/\ \A u \in UA :
            jar'[u] # jar[u] =>
                \E i \in 1..Len(reqs) :
                    /\ reqs[i].ua = u
                    /\ reqs[i].phase = "handled" /\ reqs'[i].phase = "delivered"
       /\ \A i \in 1..Len(reqs') :
            reqs'[i].kind = "callback" =>
                /\ reqs'[i].cookie \in
                      {None, LatestStateIn(reqs', reqs'[i].ua, i)}
                /\ Len(reqs'[i].out.exch) > 0 =>
                      unwrap(reqs'[i].query).state =
                          LatestStateIn(reqs', reqs'[i].ua, i)
      ]_vars

C11_Witness ==
    \E i \in Callbacks, u \in UA :
        /\ u # reqs[i].ua
        /\ Passed(i) /\ reqs[i].phase = "delivered"
        /\ is_some(jar[u]) /\ jar[u] = LatestState(u, i)
        /\ jar[u] # reqs[i].cookie

\* The response of an outcome: what the user agent receives.
Response(out) ==
    [status |-> out.status, location |-> out.location, body |-> out.body,
     delta |-> SetCookie(out)]

\* The terminal states of the callback state machine.
Completed(out) ==
    /\ out.status = 200 /\ Len(out.cb) = 1
    /\ out.body = Some([callback |-> out.cb[1]])
Rejected(out) ==
    /\ out.status = 400 /\ out.cb = << >>
    /\ out.body = None /\ out.location = None

\* C12: every callback request, whatever its query and the stored state and
\* whether or not the exchange fails, ends in exactly one of Completed (the
\* Callback's response) and Rejected (400).
C12_CallbackAlwaysAnswers ==
    \A i \in Callbacks :
        /\ Completed(reqs[i].out) \/ Rejected(reqs[i].out)
        /\ ~(Completed(reqs[i].out) /\ Rejected(reqs[i].out))

C12_Witness ==
    \E i \in Callbacks :
        /\ Rejected(reqs[i].out) /\ reqs[i].out.ret = Some(Err("e2"))
        /\ reqs[i].out.exch = <<AuthorizationCode("OLD")>>
        /\ reqs[i].phase = "delivered"

\* C13: a callback rejected because no state is stored or the stored state
\* differs from the presented one gets the response of a malformed request
\* and leaves a log entry, which the malformed request does not.
C13_StateMismatchLogged ==
    \A i \in Callbacks :
        (HasCode(i) /\ HasState(i) /\ ~StateMatches(i))
            => /\ Response(reqs[i].out) = Response(handle(None, reqs[i].cookie))
               /\ reqs[i].out.log # << >>
               /\ reqs[i].out.log # handle(None, reqs[i].cookie).log

\* C14: a callback whose exchange failed is answered 400 with no body, the
\* same response as for any other code the provider refuses, and the log
\* holds the Adapter's error.
C14_ExchangeErrorNotLeaked ==
    \A i \in Callbacks :
        (HasCode(i) /\ StateMatches(i) /\ ~Answer(i).ok)
            => /\ reqs[i].out.status = 400 /\ reqs[i].out.body = None
               /\ \A c \in Codes :
                    ~exchange_code(AuthorizationCode(c)).ok =>
                        Response(handle(
                            Some([unwrap(reqs[i].query) EXCEPT !.code = Some(c)]),
                            reqs[i].cookie)) = Response(reqs[i].out)
               /\ \E k \in 1..Len(reqs[i].out.log) :
                    reqs[i].out.log[k].detail = Answer(i).val

C14_Witness ==
    \E i \in Callbacks :
        /\ HasCode(i) /\ StateMatches(i) /\ QCode(i) = "OLD"
        /\ reqs[i].out.log[1].detail = "e2"
        /\ Response(reqs[i].out) =
              [status |-> 400, location |-> None, body |-> None,
               delta |-> NoDelta]

\* C15: the token the Callback receives is the Adapter's token in
\* access_token, token_type, expires_in, refresh_token and extras, and its
\* scope differs from the Adapter's only if the Adapter's scope was absent.
C15_OnlyScopeChanges ==
    \A i \in Callbacks :
        (Passed(i) /\ Answer(i).ok)
            => /\ Len(reqs[i].out.cb) = 1
               /\ LET given == reqs[i].out.cb[1]
                      got == Answer(i).val IN
                  /\ given.access_token = got.access_token
                  /\ given.token_type = got.token_type
                  /\ given.expires_in = got.expires_in
                  /\ given.refresh_token = got.refresh_token
                  /\ given.extras = got.extras
                  /\ given.scope # got.scope => is_none(got.scope)

C15_Witness ==
    \E i \in Callbacks :
        /\ Passed(i) /\ QCode(i) = "ABC" /\ QScope(i) = Some("read")
        /\ reqs[i].out.cb =
              <<TokenResponse("tok2", "bearer", Some(3600), Some("r1"),
                              Some("write"), <<"athlete">>)>>

\* C16: a callback request makes at most one call of exchange_code, none
\* unless its query has a code and its state is the stored one, and the call
\* carries AuthorizationCode with the query's code; a failure is not retried.
C16_ExchangeOnceWithQueryCode ==
    \A i \in Callbacks :
        /\ Len(reqs[i].out.exch) <= 1
        /\ Len(reqs[i].out.exch) = 1 =>
              /\ HasCode(i) /\ StateMatches(i)
              /\ reqs[i].out.exch[1] = AuthorizationCode(QCode(i))
              /\ reqs[i].out.ret =
                    Some(exchange_code(AuthorizationCode(QCode(i))))
        /\ (HasCode(i) /\ StateMatches(i)) => Len(reqs[i].out.exch) = 1

C16_Witness ==
    \E i \in Callbacks :
        /\ reqs[i].out.exch = <<AuthorizationCode("BAD")>>
        /\ reqs[i].out.ret = Some(Err("e1"))
        /\ reqs[i].out.status = 400
        /\ QScope(i) = Some("read")

\* Request j is the first request its user agent sent after request i.
NextOf(rs, i, j) ==
    /\ i < j /\ rs[i].ua = rs[j].ua
    /\ \A k \in (i + 1)..(j - 1) : rs[k].ua # rs[i].ua

\* C17: whenever exchange_code is called the request's jar no longer holds
\* the state, the cookie having been removed from it; once the response to a
\* failed exchange has arrived the user agent stores no state, and no later
\* callback of that user agent passes the state check without a successful
\* login in between.
C17_StateRemovedBeforeExchange ==
    [][/\ \A i \in 1..Len(reqs') :
            (reqs'[i].kind = "callback" /\ Len(reqs'[i].out.exch) > 0)
                => /\ reqs'[i].out.stored = None
                   /\ reqs'[i].out.delta = <<"remove">>
       /\ \A i \in 1..Len(reqs) :
            (/\ reqs[i].kind = "callback" /\ Len(reqs[i].out.exch) > 0
             /\ ~unwrap(reqs[i].out.ret).ok
             /\ reqs[i].phase = "handled" /\ reqs'[i].phase = "delivered")
                => jar'[reqs[i].ua] = None
       /\ \A i, j \in 1..Len(reqs') :
            (/\ i < j /\ reqs'[i].ua = reqs'[j].ua
             /\ reqs'[i].kind = "callback" /\ Len(reqs'[i].out.exch) > 0
             /\ ~unwrap(reqs'[i].out.ret).ok
             /\ reqs'[j].kind = "callback" /\ Len(reqs'[j].out.exch) > 0)
                => \E k \in (i + 1)..(j - 1) :
                       /\ reqs'[k].kind = "login" /\ reqs'[k].ua = reqs'[i].ua
                       /\ unwrap(reqs'[k].auth).ok
      ]_vars

\* C19: a callback rejected before the exchange, for a malformed query or a
\* state that is not the stored one, changes no cookie: the user agent
\* stores what it stored before, and its next callback, if it presents the
\* stored state with a code, passes the state check.
C19_RejectionKeepsState ==
    [][/\ \A i \in 1..Len(reqs') :
            (reqs'[i].kind = "callback" /\ Len(reqs'[i].out.exch) = 0)
                => /\ reqs'[i].out.delta = NoDelta
                   /\ reqs'[i].out.stored = reqs'[i].cookie
       /\ \A i \in 1..Len(reqs) :
            (/\ reqs[i].kind = "callback" /\ Len(reqs[i].out.exch) = 0
             /\ reqs[i].phase = "handled" /\ reqs'[i].phase = "delivered")
                => jar'[reqs[i].ua] = jar[reqs[i].ua]
       /\ \A i, j \in 1..Len(reqs') :
            (/\ NextOf(reqs', i, j)
             /\ reqs'[i].kind = "callback" /\ Len(reqs'[i].out.exch) = 0
             /\ reqs'[j].kind = "callback")
                => /\ reqs'[j].cookie = reqs'[i].cookie
                   /\ (/\ is_some(reqs'[j].query)
                       /\ is_some(unwrap(reqs'[j].query).code)
                       /\ unwrap(reqs'[j].query).state = reqs'[i].cookie
                       /\ is_some(reqs'[i].cookie))
                          => Len(reqs'[j].out.exch) = 1
      ]_vars

C19_Witness ==
    \E i, j \in Callbacks :
        /\ NextOf(reqs, i, j)
        /\ HasCode(i) /\ HasState(i) /\ QState(i) = Bogus
        /\ is_some(reqs[i].cookie) /\ ~Passed(i)
        /\ reqs[i].out.status = 400
        /\ HasState(j) /\ Some(QState(j)) = reqs[i].cookie /\ Passed(j)

\* C18: every request to the login route asks the Adapter exactly once, for
\* the login scopes the engine was constructed with, in their order, and a
\* redirect it answers leads to the authorization URI for those scopes.
C18_LoginUsesConfiguredScopes ==
    \A i \in Logins :
        /\ reqs[i].out.asked = <<login_scopes>>
        /\ reqs[i].out.status = 303 =>
              unwrap(reqs[i].out.location).scopes = login_scopes

C18_Witness ==
    \E i \in Logins :
        /\ login_scopes = <<"write", "read">>
        /\ reqs[i].out.status = 303
        /\ unwrap(reqs[i].out.location).scopes = <<"write", "read">>
        /\ reqs[i].phase = "delivered"

\* The state generated by successful login k.
StateOf(k) == unwrap(reqs[k].auth).val.state

\* C20: a user agent stores one state, that of its latest successful login:
\* once it has the responses to all its requests, the state it stores, if
\* any, is the latest login's, and a callback presenting the state of an
\* earlier login than the latest is rejected without an exchange.
C20_LatestLoginReplacesState ==
    /\ \A u \in UA :
          (Idle(u) /\ is_some(jar[u]))
              => jar[u] = LatestState(u, Len(reqs) + 1)
    /\ \A i \in Callbacks :
          \A k \in OkLoginsBefore(reqs, reqs[i].ua, i) :
              (/\ k # Max(OkLoginsBefore(reqs, reqs[i].ua, i))
               /\ HasState(i) /\ QState(i) = StateOf(k))
                  => /\ ~Passed(i)
                     /\ reqs[i].out.status = 400

C20_Witness ==
    \E i \in Callbacks :
        \E k \in OkLoginsBefore(reqs, reqs[i].ua, i) :
            /\ k # Max(OkLoginsBefore(reqs, reqs[i].ua, i))
            /\ HasCode(i) /\ HasState(i) /\ QState(i) = StateOf(k)
            /\ reqs[k].out.stored = Some(StateOf(k))
            /\ reqs[i].cookie = LatestState(reqs[i].ua, i)
            /\ reqs[i].out.status = 400 /\ reqs[i].out.exch = << >>

====
